---- MODULE Spec2Model ----
(***************************************************************************)
(* Model of hooks/tk-multi-publish2/basic/collector.py: the three session   *)
(* collectors (Substance Painter, Substance Designer, Blender).             *)
(*                                                                          *)
(* Encoding of Python values                                                *)
(*   - a string is a sequence of tokens; "/" and "." are tokens of their    *)
(*     own, every other token is a chunk of characters holding neither.     *)
(*     String concatenation is \o.  None and "" (both falsy, and the code   *)
(*     only ever tests truthiness of a path) are the empty sequence NoPath. *)
(*   - objects are records with a field tag: PyNone, a PluginSetting, a     *)
(*     Template, an SDPackage, a resource, a list, an item reference.       *)
(*   - an item is a record; its parent is the index of the parent in tree,  *)
(*     0 standing for the parent_item handed to process_current_session.    *)
(***************************************************************************)
EXTENDS Integers, Sequences, FiniteSets, TLC

VARIABLES
    pc,         \* "idle" before the host calls a collector, "done" after the call
    collector,  \* which collector's process_current_session ran
    env,        \* the settings and the application state the call read
    tree,       \* the items created under parent_item, in creation order
    ret,        \* the value process_current_session returned
    err,        \* "none", or the call whose error propagated out of the hook
    events,     \* the engine/application calls and item creations, in order
    calls,      \* the values get_export_path returned and the paths handed to
                \* export_document_maps, in order
    busy        \* the engine's busy indicator is shown

vars == <<pc, collector, env, tree, ret, err, events, calls, busy>>

(***************************************************************************)
(* Bounds of the model                                                      *)
(***************************************************************************)
MaxPackages == 2
MaxResources == 2
MaxEntries == 2

(***************************************************************************)
(* Python values                                                            *)
(***************************************************************************)
PyNone == [tag |-> "None"]
PyStr(s) == [tag |-> "str", s |-> s]
PyList(elems) == [tag |-> "list", elems |-> elems]
ItemRef(i) == [tag |-> "item", id |-> i]
NoPath == <<>>

\* Python truthiness of an object: None is falsy, setting and template objects
\* are truthy.
Truthy(v) == v.tag # "None"

PluginSetting(v) == [tag |-> "PluginSetting", value |-> v]

(***************************************************************************)
(* os.path on token strings                                                 *)
(***************************************************************************)
\* p.rfind(c), 1-based; 0 when c does not occur
RFind(p, c) ==
    LET hits == {i \in 1..Len(p) : p[i] = c}
    IN IF hits = {} THEN 0 ELSE CHOOSE i \in hits : \A j \in hits : j <= i

RECURSIVE RStripSep(_)
RStripSep(p) ==
    IF p # <<>> /\ p[Len(p)] = "/" THEN RStripSep(SubSeq(p, 1, Len(p) - 1)) ELSE p

\* posixpath.split: <<head, tail>>
OsPathSplit(p) ==
    LET i == RFind(p, "/")
        head == SubSeq(p, 1, i)
        tail == SubSeq(p, i + 1, Len(p))
    IN <<IF \E k \in 1..Len(head) : head[k] # "/" THEN RStripSep(head) ELSE head, tail>>

\* posixpath.splitext: <<root, ext>>; leading dots of the last component are
\* not an extension
OsPathSplitext(p) ==
    LET sepIndex == RFind(p, "/")
        dotIndex == RFind(p, ".")
    IN IF dotIndex > sepIndex /\ \E k \in (sepIndex + 1)..(dotIndex - 1) : p[k] # "."
       THEN <<SubSeq(p, 1, dotIndex - 1), SubSeq(p, dotIndex, Len(p))>>
       ELSE <<p, <<>>>>

\* os.path.join(self.disk_location, os.pardir, "icons", name)
IconPath(name) == <<"disk_location", "/", "..", "/", "icons", "/", name>>

\* publisher.util.get_file_path_components(path)["filename"]: the path is
\* normalized (no trailing separator) and split
FilePathFilename(path) == OsPathSplit(RStripSep(path))[2]

(***************************************************************************)
(* Templates of the host configuration                                      *)
(***************************************************************************)
TemplateNames == {"work", "export"}
TemplateRoot(n) == IF n = "work" THEN <<"/", "w", "/">> ELSE <<"/", "e", "/">>
Template(n) == [tag |-> "Template", name |-> n]

\* engine.get_template_by_name(name): the template of that name, None when
\* there is none
GetTemplateByName(v) ==
    IF v.tag = "str" /\ v.s \in TemplateNames THEN Template(v.s) ELSE PyNone

IsPrefix(a, b) == Len(a) <= Len(b) /\ SubSeq(b, 1, Len(a)) = a

\* template.get_fields(path): the fields of a path that matches the template;
\* raises for a path that does not (None included)
GetFieldsRaises(t, path) == ~IsPrefix(TemplateRoot(t.name), path) \/ Len(path) = Len(TemplateRoot(t.name))
GetFields(t, path) == [name |-> SubSeq(path, Len(TemplateRoot(t.name)) + 1, Len(path))]

\* template.apply_fields(fields)
ApplyFields(t, fields) == TemplateRoot(t.name) \o fields.name

\* settings.get("Work Template"): absent, or a setting whose value is None
\* (the declared default), or a setting naming a template
WorkTemplateSettings == {PyNone, PluginSetting(PyNone), PluginSetting(PyStr("work"))}
WorkExportTemplateSettings == {PyNone, PluginSetting(PyStr("export"))}
PublishAsFolderSettings == {PyNone, [tag |-> "PluginSetting", value |-> FALSE],
                            [tag |-> "PluginSetting", value |-> TRUE]}

(***************************************************************************)
(* Items                                                                    *)
(***************************************************************************)
\* parent_item.create_item(item_type, type_display, display_name), followed by
\* set_icon_from_path and the assignments to item.properties
CreateItem(parent, item_type, type_display, display_name, icon, properties) ==
    [item_type |-> item_type, type_display |-> type_display, name |-> display_name,
     parent |-> parent, icon |-> IconPath(icon), properties |-> properties]

NoProperties == [k \in {} |-> PyNone]

NoCalls == [get_export_path |-> <<>>, export_document_maps |-> <<>>]

(***************************************************************************)
(* BlenderSessionCollector                                                  *)
(***************************************************************************)
BlenderFilePaths == {NoPath, <<"/", "w", "/", "scene", ".", "blend">>,
                     <<"/", "w", "/", "v1", ".", "a", "/", "untitled">>,
                     <<"scene", ".", "blend">>}

\* collect_current_blender_session storing the publish type on every session
\* item
collect_current_blender_session_typed(settings, parent, path) ==
    LET display_name == IF path # NoPath THEN FilePathFilename(path)
                        ELSE <<"Current Blender Session">>
        work_template_setting == settings["Work Template"]
        properties == IF Truthy(work_template_setting)
                      THEN [work_template |-> GetTemplateByName(work_template_setting.value),
                            publish_type |-> <<"Blender Project File">>]
                      ELSE [publish_type |-> <<"Blender Project File">>]
    IN CreateItem(parent, "blender.session", "Blender Session", display_name,
                  "blender.png", properties)

collect_current_blender_session(settings, parent, path) ==
    LET display_name == IF path # NoPath THEN FilePathFilename(path)
                        ELSE <<"Current Blender Session">>
        work_template_setting == settings["Work Template"]
        properties == IF Truthy(work_template_setting)
                      THEN [work_template |-> GetTemplateByName(work_template_setting.value),
                            publish_type |-> <<"Blender Project File">>]
                      ELSE NoProperties
    IN CreateItem(parent, "blender.session", "Blender Session", display_name,
                  "blender.png", properties)

\* collect_session_geometry creating the item under the root parent_item
collect_session_geometry_root(parent) ==
    CreateItem(0, "blender.session.geometry", "Geometry",
               <<"All Session Geometry">>, "geometry.png", NoProperties)

collect_session_geometry(parent) ==
    CreateItem(parent, "blender.session.geometry", "Geometry",
               <<"All Session Geometry">>, "geometry.png", NoProperties)

BlenderProcessCurrentSession ==
    /\ pc = "idle"
    /\ \E ws \in WorkTemplateSettings, path \in BlenderFilePaths :
        LET settings == [x \in {"Work Template"} |-> ws]
            item == collect_current_blender_session(settings, 0, path)
            geo == collect_session_geometry(Len(tree) + 1)
        IN /\ tree' = tree \o <<item, geo>>
           /\ events' = events \o <<item.item_type, geo.item_type>>
           /\ env' = [settings |-> settings, filepath |-> path]
    /\ pc' = "done"
    /\ collector' = "blender"
    /\ ret' = PyNone
    /\ err' = "none"
    /\ UNCHANGED <<calls, busy>>

(***************************************************************************)
(* SubstanceDesignerSessionCollector                                        *)
(***************************************************************************)
CompGraph == "SDSBSCompGraph"
MDLGraph == "SDMDLGraph"
OtherResource == "SDResourceFolder"
GraphIds == {"g1", "g2"}

\* what a listed resource can be: a compositing graph, a material graph
\* (each with an identifier) or any other kind of resource
ResourceChoices ==
    {[tag |-> k, identifier |-> <<g>>] : k \in {CompGraph, MDLGraph}, g \in GraphIds}
    \cup {[tag |-> OtherResource, identifier |-> <<"g1">>]}

\* how k listed resources fall to m packages, in order: the owner of each
Owners(k, m) == {o \in [1..k -> 1..m] : \A j \in 1..(k - 1) : o[j] <= o[j + 1]}

\* the part of flat that owner gives to i (a contiguous run)
Owned(flat, owner, i) ==
    LET idx == {j \in 1..Len(flat) : owner[j] = i}
        first == IF idx = {} THEN 1 ELSE CHOOSE j \in idx : \A x \in idx : j <= x
    IN [t \in 1..Cardinality(idx) |-> flat[first + t - 1]]

\* pck.getFilePath()
PackageFilePath(i) ==
    IF i = 1 THEN <<"/", "w", "/", "wood", ".", "sbs">>
    ELSE <<"/", "w", "/", "v", ".", "2", "/", "pkg", ".", "sbs">>

\* a user package handle; pck.getChildrenResources(True) is its resources
Package(i, shape) ==
    [tag |-> "SDPackage", pid |-> i, file_path |-> PackageFilePath(i),
     resources |-> [j \in 1..Len(shape) |->
                      [tag |-> shape[j].tag, rid |-> <<i, j>>,
                       identifier |-> shape[j].identifier]]]

\* GraphProperties naming the first resource of the package in extra_fields
GraphPropertiesFirstName(pck, resource, work_template, publish_type, graph_id) ==
    [package |-> pck, resource |-> resource, work_template |-> work_template,
     publish_type |-> <<publish_type>>,
     extra_fields |-> [k \in {"substancedesigner.graph.name"} |-> pck.resources[1].identifier]]

GraphProperties(pck, resource, work_template, publish_type, graph_id) ==
    [package |-> pck, resource |-> resource, work_template |-> work_template,
     publish_type |-> <<publish_type>>,
     extra_fields |-> [k \in {"substancedesigner.graph.name"} |-> graph_id]]

PackageProperties(pck, work_template, publish_type) ==
    [package |-> pck, work_template |-> work_template, publish_type |-> <<publish_type>>]

\* the items one resource of the walk creates under pck_item
GraphItems(pck, pck_item, resource, work_template) ==
    LET graph_id == resource.identifier
    IN (IF resource.tag = CompGraph
        THEN <<CreateItem(pck_item, "substancedesigner.graph.textures", "Textures",
                          graph_id \o <<" Textures">>, "texture.png",
                          GraphProperties(pck, resource, work_template, "Texture Folder", graph_id))>>
        ELSE <<>>)
       \o
       (IF resource.tag = MDLGraph
        THEN <<CreateItem(pck_item, "substancedesigner.graph.mdle", "Graph as MDLE",
                          graph_id \o <<" MDLE">>, "substancedesigner_graph_mdle.png",
                          GraphProperties(pck, resource, work_template, "MDLE File", graph_id)),
               CreateItem(pck_item, "substancedesigner.graph.preset", "Graph as preset",
                          graph_id \o <<" Preset(mdl)">>, "substancedesigner_graph_preset.png",
                          GraphProperties(pck, resource, work_template, "MDL File", graph_id))>>
        ELSE <<>>)

\* the loop over pck.getChildrenResources(True), from resource j on
RECURSIVE WalkResources(_, _, _, _, _)
WalkResources(pck, pck_item, work_template, j, acc) ==
    IF j > Len(pck.resources) THEN acc
    ELSE LET resource == pck.resources[j]
         IN WalkResources(pck, pck_item, work_template, j + 1,
                [created |-> acc.created \o GraphItems(pck, pck_item, resource, work_template),
                 has_comp_graphs |-> acc.has_comp_graphs \/ resource.tag = CompGraph,
                 has_mdl_graphs |-> acc.has_mdl_graphs \/ resource.tag = MDLGraph])

\* PackageLevelItems with the archive item decided by has_mdl_graphs, the flag
\* of the other kind of graph
PackageLevelItemsOneFlag(pck, pck_item, pck_id, work_template, walk) ==
    (IF walk.has_mdl_graphs
     THEN <<CreateItem(pck_item, "substancedesigner.package.mdl", "Package as MDL Module",
                       pck_id \o <<" MDL Module">>, "substancedesigner_graph_mdl.png",
                       PackageProperties(pck, work_template, "MDL File"))>>
     ELSE <<>>)
    \o
    (IF walk.has_mdl_graphs
     THEN <<CreateItem(pck_item, "substancedesigner.package.archive",
                       "Substance Designer Package Archive",
                       pck_id \o <<" Archive">>, "substancedesignerarchive.png",
                       PackageProperties(pck, work_template, "Substance Designer Archive"))>>
     ELSE <<>>)

\* the package-level items created after the walk
PackageLevelItems(pck, pck_item, pck_id, work_template, walk) ==
    (IF walk.has_mdl_graphs
     THEN <<CreateItem(pck_item, "substancedesigner.package.mdl", "Package as MDL Module",
                       pck_id \o <<" MDL Module">>, "substancedesigner_graph_mdl.png",
                       PackageProperties(pck, work_template, "MDL File"))>>
     ELSE <<>>)
    \o
    (IF walk.has_comp_graphs
     THEN <<CreateItem(pck_item, "substancedesigner.package.archive",
                       "Substance Designer Package Archive",
                       pck_id \o <<" Archive">>, "substancedesignerarchive.png",
                       PackageProperties(pck, work_template, "Substance Designer Archive"))>>
     ELSE <<>>)

\* one iteration of the loop over user_pcks; n items exist before it
CollectPackage(pck, parent, work_template, n) ==
    LET pck_id == FilePathFilename(pck.file_path)
        pck_item == CreateItem(parent, "substancedesigner.package",
                               "Substance Designer Package", pck_id, "substancedesigner.png",
                               PackageProperties(pck, work_template, "Substance Designer File"))
        walk == WalkResources(pck, n + 1, work_template, 1,
                    [created |-> <<>>, has_comp_graphs |-> FALSE, has_mdl_graphs |-> FALSE])
    IN <<pck_item>> \o walk.created
       \o PackageLevelItems(pck, n + 1, pck_id, work_template, walk)

\* items.append(...) after every create_item: the references of the created items
AppendedItems(created, n) == [k \in 1..Len(created) |-> ItemRef(n + k)]

RECURSIVE CollectPackages(_, _, _, _, _)
CollectPackages(user_pcks, parent, work_template, i, acc) ==
    IF i > Len(user_pcks) THEN acc
    ELSE LET created == CollectPackage(user_pcks[i], parent, work_template, Len(acc.tree))
         IN CollectPackages(user_pcks, parent, work_template, i + 1,
                [tree |-> acc.tree \o created,
                 items |-> acc.items \o AppendedItems(created, Len(acc.tree))])

\* DesignerWorkTemplate resolving the template to a path at collection time
DesignerWorkTemplateResolved(settings) ==
    LET work_template_setting == settings["Work Template"]
    IN IF Truthy(work_template_setting)
       THEN PyStr(TemplateRoot("work"))
       ELSE PyNone

\* the work template resolved up front
DesignerWorkTemplate(settings) ==
    LET work_template_setting == settings["Work Template"]
    IN IF Truthy(work_template_setting)
       THEN GetTemplateByName(work_template_setting.value)
       ELSE PyNone

\* returns the created items (tree) and the flat list of them (items)
collect_current_substancedesigner_session(settings, parent, user_pcks) ==
    CollectPackages(user_pcks, parent, DesignerWorkTemplate(settings), 1,
                    [tree |-> <<>>, items |-> <<>>])

\* items = []; if session_item: items.append(session_item); return items
DesignerReturnValue(session_item) ==
    IF session_item # <<>> THEN PyList(<<PyList(session_item)>>) ELSE PyList(<<>>)

DesignerProcessCurrentSession ==
    /\ pc = "idle"
    /\ \E ws \in WorkTemplateSettings, m \in 0..MaxPackages, n \in 0..MaxResources :
        \E flat \in [1..n -> ResourceChoices], owner \in Owners(n, m) :
            LET settings == [x \in {"Work Template"} |-> ws]
                user_pcks == [i \in 1..m |-> Package(i, Owned(flat, owner, i))]
                got == collect_current_substancedesigner_session(settings, 0, user_pcks)
            IN /\ tree' = got.tree
               /\ events' = [k \in 1..Len(got.tree) |-> got.tree[k].item_type]
               /\ env' = [settings |-> settings, user_pcks |-> user_pcks]
               /\ ret' = DesignerReturnValue(got.items)
    /\ pc' = "done"
    /\ collector' = "designer"
    /\ err' = "none"
    /\ UNCHANGED <<calls, busy>>

(***************************************************************************)
(* SubstancePainterSessionCollector                                         *)
(***************************************************************************)
SESSION_PUBLISHED_TYPE == <<"Substance Painter Project File">>

\* engine.app.get_current_project_path(): no project, a project under the
\* work template's root, a project elsewhere
ProjectPaths == {NoPath, <<"/", "w", "/", "proj", ".", "spp">>,
                 <<"/", "x", "/", "v", ".", "1", "/", "proj">>}

\* engine.app.get_project_export_path()
ProjectExportPaths == {NoPath, <<"/", "out", "/", "tex">>}

\* what os.listdir(export_path) finds after the export
DirStates == {"missing", "empty", "nonempty"}

\* the files export_document_maps can report
TextureFiles == {<<"/", "e", "/", "wood_diffuse", ".", "png">>,
                 <<"/", "e", "/", "v", ".", "1", "/", ".", "hidden">>,
                 <<"wood", ".", "normal", ".", "png">>}

\* the texture sets of the project
TextureSetNames == {"set1", "set2"}

\* map_export_info in iteration order: one sequence of files per texture set
\* (m texture sets, k entries together), and the files that exist on disk
\* (os.path.exists)
MapExportInfos ==
    UNION {UNION {{[sets |-> [i \in 1..m |-> Owned(flat, owner, i)], exists |-> ex] :
                   ex \in SUBSET {flat[j] : j \in 1..k}} :
                  <<flat, owner>> \in [1..k -> TextureFiles] \X Owners(k, m)} :
           <<m, k>> \in {x \in (0..Cardinality(TextureSetNames)) \X (0..MaxEntries) : x[1] = 0 => x[2] = 0}}

NoExport == [sets |-> <<>>, exists |-> {}]

\* map_export_info.iteritems(): whether the mapping export_document_maps
\* returned has the method. A Python 2 dict has it; on a Python 3 dict the
\* call raises AttributeError.
HasIterItems == BOOLEAN

PainterSettings(ws, es, fs) ==
    [x \in {"Work Template", "Work Export Template", "Publish Textures as Folder"} |->
        IF x = "Work Template" THEN ws
        ELSE IF x = "Work Export Template" THEN es ELSE fs]

\* what a call did: the items it created, the calls it made, the error that
\* left it ("none" when it returned), the busy indicator after it
Outcome(created, evs, e, b, c) ==
    [created |-> created, events |-> evs, err |-> e, busy |-> b, calls |-> c]

\* the record of a call that raised in get_fields, of one that reached the
\* export with export_path
Calls(gep, export_path) ==
    [get_export_path |-> IF gep.raised THEN <<>> ELSE <<gep.value>>,
     export_document_maps |-> IF gep.raised THEN <<>> ELSE <<export_path>>]

\* collect_current_substancepainter_session naming the item after the whole path
collect_current_substancepainter_session_path(settings, parent, path) ==
    LET display_name == IF path # NoPath THEN path
                        ELSE <<"Current Substance Painter Session">>
        work_template_setting == settings["Work Template"]
        properties == IF Truthy(work_template_setting)
                      THEN [work_template |-> GetTemplateByName(work_template_setting.value),
                            publish_type |-> SESSION_PUBLISHED_TYPE]
                      ELSE NoProperties
    IN CreateItem(parent, "substancepainter.session", "Substance Painter Session",
                  display_name, "session.png", properties)

collect_current_substancepainter_session(settings, parent, path) ==
    LET display_name == IF path # NoPath THEN FilePathFilename(path)
                        ELSE <<"Current Substance Painter Session">>
        work_template_setting == settings["Work Template"]
        properties == IF Truthy(work_template_setting)
                      THEN [work_template |-> GetTemplateByName(work_template_setting.value),
                            publish_type |-> SESSION_PUBLISHED_TYPE]
                      ELSE NoProperties
    IN CreateItem(parent, "substancepainter.session", "Substance Painter Session",
                  display_name, "session.png", properties)

\* [raised, value, events]: value is NoPath when the function returns None
get_export_path(settings, path) ==
    LET work_template_setting == settings["Work Template"]
        work_template == IF Truthy(work_template_setting)
                         THEN GetTemplateByName(work_template_setting.value) ELSE PyNone
        work_export_template_setting == settings["Work Export Template"]
        work_export_template == IF Truthy(work_export_template_setting)
                                THEN GetTemplateByName(work_export_template_setting.value)
                                ELSE PyNone
    IN IF Truthy(work_export_template) /\ Truthy(work_template)
       THEN IF GetFieldsRaises(work_template, path)
            THEN [raised |-> TRUE, value |-> NoPath, events |-> <<"get_current_project_path">>]
            ELSE [raised |-> FALSE,
                  value |-> ApplyFields(work_export_template, GetFields(work_template, path)),
                  events |-> <<"get_current_project_path">>]
       ELSE [raised |-> FALSE, value |-> NoPath, events |-> <<>>]

\* ResolveExportPath without the fallback to the application's export path
ResolveExportPathNoFallback(gep, app) == gep.value

\* export_path = self.get_export_path(settings)
\* if not export_path: export_path = engine.app.get_project_export_path()
ResolveExportPath(gep, app) ==
    IF gep.value = NoPath THEN app.project_export_path ELSE gep.value

ResolveEvents(gep) ==
    gep.events \o (IF gep.value = NoPath THEN <<"get_project_export_path">> ELSE <<>>)

\* FolderItem publishing the folder under the per-texture publish type
FolderItemAsTexture(parent, export_path) ==
    CreateItem(parent, "substancepainter.textures", "Textures",
               <<"Substance Painter Textures">>, "texture.png",
               [path |-> export_path, publish_type |-> <<"Texture">>])

\* the folder item of collect_textures_as_folder
FolderItem(parent, export_path) ==
    CreateItem(parent, "substancepainter.textures", "Textures",
               <<"Substance Painter Textures">>, "texture.png",
               [path |-> export_path, publish_type |-> <<"Texture Folder">>])

\* CollectFolder without the test of the listing: an item for an empty folder
CollectFolderUnlisted(parent, export_path, dir_state, evs, c) ==
    IF export_path # NoPath
    THEN IF dir_state = "missing"
         THEN Outcome(<<>>, evs \o <<"listdir">>, "listdir", FALSE, c)
         ELSE Outcome(<<FolderItem(parent, export_path)>>,
                      evs \o <<"listdir", "substancepainter.textures">>, "none", FALSE, c)
    ELSE Outcome(<<>>, evs, "none", FALSE, c)

\* if export_path: textures = os.listdir(export_path); if textures: ...
CollectFolder(parent, export_path, dir_state, evs, c) ==
    IF export_path # NoPath
    THEN IF dir_state = "missing"
         THEN Outcome(<<>>, evs \o <<"listdir">>, "listdir", FALSE, c)
         ELSE IF dir_state = "nonempty"
              THEN Outcome(<<FolderItem(parent, export_path)>>,
                           evs \o <<"listdir", "substancepainter.textures">>, "none", FALSE, c)
              ELSE Outcome(<<>>, evs \o <<"listdir">>, "none", FALSE, c)
    ELSE Outcome(<<>>, evs, "none", FALSE, c)

\* collect_textures_as_folder clearing the busy indicator only after the
\* folder has been collected
collect_textures_as_folder_late_clear(settings, parent, app) ==
    LET gep == get_export_path(settings, app.current_project_path)
        export_path == ResolveExportPath(gep, app)
        exported == ResolveEvents(gep) \o <<"show_busy", "export_document_maps">>
        c == Calls(gep, export_path)
        got == CollectFolder(parent, export_path, app.dir_state, exported, c)
    IN IF gep.raised THEN Outcome(<<>>, gep.events, "get_fields", busy, c)
       ELSE IF app.export_raises THEN Outcome(<<>>, exported, "export_document_maps", TRUE, c)
       ELSE IF got.err # "none" THEN Outcome(got.created, got.events, got.err, TRUE, c)
       ELSE Outcome(got.created, got.events \o <<"clear_busy">>, "none", FALSE, c)

collect_textures_as_folder(settings, parent, app) ==
    LET gep == get_export_path(settings, app.current_project_path)
        export_path == ResolveExportPath(gep, app)
        exported == ResolveEvents(gep) \o <<"show_busy", "export_document_maps">>
        c == Calls(gep, export_path)
    IN IF gep.raised THEN Outcome(<<>>, gep.events, "get_fields", busy, c)
       ELSE IF app.export_raises THEN Outcome(<<>>, exported, "export_document_maps", TRUE, c)
       ELSE CollectFolder(parent, export_path, app.dir_state, exported \o <<"clear_busy">>, c)

\* the item of one exported file that exists
TextureItem(parent, texture_file) ==
    LET filenamefile == OsPathSplit(texture_file)[2]
        texture_name == OsPathSplitext(filenamefile)[1]
    IN CreateItem(parent, "substancepainter.texture", "Texture", texture_name, "texture.png",
                  [path |-> texture_file, publish_type |-> <<"Texture">>])

\* for texture_id, texture_file in texture_set.iteritems(): from entry j on
RECURSIVE CollectTextureSet(_, _, _, _)
CollectTextureSet(parent, texture_set, exists, j) ==
    IF j > Len(texture_set) THEN <<>>
    ELSE (IF texture_set[j] \in exists THEN <<TextureItem(parent, texture_set[j])>> ELSE <<>>)
         \o CollectTextureSet(parent, texture_set, exists, j + 1)

\* for texture_set_name, texture_set in map_export_info.iteritems(): from set i on
RECURSIVE CollectTextureSets(_, _, _)
CollectTextureSets(parent, info, i) ==
    IF i > Len(info.sets) THEN <<>>
    ELSE CollectTextureSet(parent, info.sets[i], info.exists, 1)
         \o CollectTextureSets(parent, info, i + 1)

\* collect_textures clearing the busy indicator also when the export raises
collect_textures_finally(settings, parent, app) ==
    LET gep == get_export_path(settings, app.current_project_path)
        exported == ResolveEvents(gep) \o <<"show_busy", "export_document_maps">>
        created == CollectTextureSets(parent, app.map_export_info, 1)
        c == Calls(gep, ResolveExportPath(gep, app))
    IN IF gep.raised THEN Outcome(<<>>, gep.events, "get_fields", busy, c)
       ELSE IF app.export_raises
       THEN Outcome(<<>>, exported \o <<"clear_busy">>, "export_document_maps", FALSE, c)
       ELSE IF ~app.has_iteritems
       THEN Outcome(<<>>, exported \o <<"clear_busy">>, "iteritems", FALSE, c)
       ELSE Outcome(created,
                    exported \o <<"clear_busy">>
                        \o [k \in 1..Len(created) |-> created[k].item_type],
                    "none", FALSE, c)

collect_textures(settings, parent, app) ==
    LET gep == get_export_path(settings, app.current_project_path)
        exported == ResolveEvents(gep) \o <<"show_busy", "export_document_maps">>
        created == CollectTextureSets(parent, app.map_export_info, 1)
        c == Calls(gep, ResolveExportPath(gep, app))
    IN IF gep.raised THEN Outcome(<<>>, gep.events, "get_fields", busy, c)
       ELSE IF app.export_raises THEN Outcome(<<>>, exported, "export_document_maps", TRUE, c)
       ELSE IF ~app.has_iteritems
       THEN Outcome(<<>>, exported \o <<"clear_busy">>, "iteritems", FALSE, c)
       ELSE Outcome(created,
                    exported \o <<"clear_busy">>
                        \o [k \in 1..Len(created) |-> created[k].item_type],
                    "none", FALSE, c)

\* publish_as_folder_setting and publish_as_folder_setting.value
PublishAsFolder(settings) ==
    LET publish_as_folder_setting == settings["Publish Textures as Folder"]
    IN Truthy(publish_as_folder_setting) /\ publish_as_folder_setting.value

\* n items exist under parent_item before the call; `if item:` holds of the
\* item create_item returned
painter_process_current_session(settings, parent, app, n) ==
    LET item == collect_current_substancepainter_session(settings, parent,
                                                         app.current_project_path)
        out == IF PublishAsFolder(settings)
               THEN collect_textures_as_folder(settings, n + 1, app)
               ELSE collect_textures(settings, n + 1, app)
    IN Outcome(<<item>> \o out.created,
               <<"get_current_project_path", item.item_type,
                 IF PublishAsFolder(settings) THEN "collect_textures_as_folder"
                 ELSE "collect_textures">> \o out.events,
               out.err, out.busy, out.calls)

\* The application state is drawn as the call reads it: what the call never
\* reads is left at a fixed value.
PainterProcessCurrentSession ==
    /\ pc = "idle"
    /\ \E ws \in WorkTemplateSettings, es \in WorkExportTemplateSettings,
          fs \in PublishAsFolderSettings, path \in ProjectPaths :
        LET settings == PainterSettings(ws, es, fs)
            gep == get_export_path(settings, path)
        IN \E pep \in (IF ~gep.raised /\ gep.value = NoPath THEN ProjectExportPaths
                       ELSE {NoPath}),
              raises \in (IF gep.raised THEN {FALSE} ELSE BOOLEAN) :
            LET exported == ~gep.raised /\ ~raises
                listed == exported /\ PublishAsFolder(settings)
                          /\ (gep.value # NoPath \/ pep # NoPath)
                iterated == exported /\ ~PublishAsFolder(settings)
            IN \E ds \in (IF listed THEN DirStates ELSE {"unread"}),
                  it \in (IF iterated THEN HasIterItems ELSE {TRUE}) :
               \E info \in (IF iterated /\ it THEN MapExportInfos ELSE {NoExport}) :
                LET app == [current_project_path |-> path, project_export_path |-> pep,
                            export_raises |-> raises, dir_state |-> ds,
                            has_iteritems |-> it, map_export_info |-> info]
                    out == painter_process_current_session(settings, 0, app, Len(tree))
                IN /\ tree' = tree \o out.created
                   /\ events' = events \o out.events
                   /\ env' = [settings |-> settings, app |-> app]
                   /\ err' = out.err
                   /\ busy' = out.busy
                   /\ calls' = out.calls
    /\ pc' = "done"
    /\ collector' = "painter"
    /\ ret' = PyNone

Init ==
    /\ pc = "idle"
    /\ collector = "none"
    /\ env = [settings |-> NoProperties]
    /\ tree = <<>>
    /\ ret = PyNone
    /\ err = "none"
    /\ events = <<>>
    /\ calls = NoCalls
    /\ busy = FALSE

Next ==
    \/ BlenderProcessCurrentSession
    \/ DesignerProcessCurrentSession
    \/ PainterProcessCurrentSession

Spec == Init /\ [][Next]_vars

(***************************************************************************)
(* Properties                                                               *)
(***************************************************************************)
\* the indices of the items of tree that satisfy P
ItemsWhere(P(_)) == {k \in 1..Len(tree) : P(tree[k])}

\* the flat list collect_current_substancedesigner_session returned, as far
\* as the caller's return value shows it: process_current_session returns it
\* inside a list, or returns the empty list when it is empty
FlatList == IF ret.tag = "list" /\ ret.elems # <<>> THEN ret.elems[1].elems ELSE <<>>

\* the positions of the flat list that hold an item of type t of package pck
FlatOf(pck, t) ==
    {k \in 1..Len(FlatList) :
        /\ tree[FlatList[k].id].item_type = t
        /\ tree[FlatList[k].id].properties.package = pck}

GraphCount(pck, kind) == Cardinality({j \in 1..Len(pck.resources) : pck.resources[j].tag = kind})

\* C1: the flat list of the Node-Graph collector holds, for every user package
\* with c compositing graphs and m material graphs, exactly one package item,
\* c graph.textures items, m graph.mdle items, m graph.preset items, one
\* package.mdl item iff m > 0 and one package.archive item iff c > 0, and
\* nothing else of that package.
C1_ItemCountsPerPackage ==
    collector = "designer" =>
        \A i \in 1..Len(env.user_pcks) :
            LET pck == env.user_pcks[i]
                c == GraphCount(pck, CompGraph)
                m == GraphCount(pck, MDLGraph)
            IN /\ Cardinality(FlatOf(pck, "substancedesigner.package")) = 1
               /\ Cardinality(FlatOf(pck, "substancedesigner.graph.textures")) = c
               /\ Cardinality(FlatOf(pck, "substancedesigner.graph.mdle")) = m
               /\ Cardinality(FlatOf(pck, "substancedesigner.graph.preset")) = m
               /\ Cardinality(FlatOf(pck, "substancedesigner.package.mdl")) = (IF m > 0 THEN 1 ELSE 0)
               /\ Cardinality(FlatOf(pck, "substancedesigner.package.archive")) = (IF c > 0 THEN 1 ELSE 0)
               /\ Cardinality({k \in 1..Len(FlatList) :
                                  tree[FlatList[k].id].properties.package = pck})
                    = 1 + c + 2 * m + (IF m > 0 THEN 1 ELSE 0) + (IF c > 0 THEN 1 ELSE 0)

\* a package with one compositing and one material graph (six items) next to
\* a package with no graph at all (the package item alone)
C1_Witness ==
    /\ collector = "designer"
    /\ Len(env.user_pcks) = 2
    /\ GraphCount(env.user_pcks[1], CompGraph) = 1
    /\ GraphCount(env.user_pcks[1], MDLGraph) = 1
    /\ env.user_pcks[2].resources = <<>>
    /\ Len(FlatList) = 7

\* C2 (as claimed): process_current_session of the Node-Graph collector
\* returns a flat list whose elements are the created items themselves, the
\* empty list when no user package is open.
C2_ReturnsFlatItemList ==
    collector = "designer" => ret = PyList([k \in 1..Len(tree) |-> ItemRef(k)])

\* C3: in folder mode, when the export returned and the export directory
\* lists files, exactly one substancepainter.textures item exists; it is a
\* child of the session item, its path is the directory handed to
\* export_document_maps, its publish_type is "Texture Folder", and there is no
\* substancepainter.texture item.
IsFolderItem(it) == it.item_type = "substancepainter.textures"
IsTextureItem(it) == it.item_type = "substancepainter.texture"
IsPainterSession(it) == it.item_type = "substancepainter.session"

FolderSettingTrue ==
    /\ env.settings["Publish Textures as Folder"].tag = "PluginSetting"
    /\ env.settings["Publish Textures as Folder"].value = TRUE

ExportReturned == \E k \in 1..Len(events) : events[k] = "clear_busy"

C3_FolderModeOneFolderItem ==
    (collector = "painter" /\ FolderSettingTrue /\ ExportReturned
        /\ env.app.dir_state = "nonempty") =>
        /\ Cardinality(ItemsWhere(IsFolderItem)) = 1
        /\ ItemsWhere(IsTextureItem) = {}
        /\ \A k \in ItemsWhere(IsFolderItem) :
            /\ tree[k].parent \in ItemsWhere(IsPainterSession)
            /\ tree[tree[k].parent].parent = 0
            /\ tree[k].properties.path = calls.export_document_maps[1]
            /\ tree[k].properties.publish_type = <<"Texture Folder">>

\* folder mode with the export path taken from the templates and a directory
\* that lists files
C3_Witness ==
    /\ collector = "painter"
    /\ FolderSettingTrue
    /\ ExportReturned
    /\ env.app.dir_state = "nonempty"
    /\ calls.get_export_path # <<NoPath>>
    /\ ItemsWhere(IsFolderItem) # {}

(***************************************************************************)
(* Strings, stated without the os.path operators                            *)
(***************************************************************************)
HasSep(p) == \E k \in 1..Len(p) : p[k] = "/"

\* b is the last component of path: what follows its last separator
IsLastComponent(b, path) ==
    /\ Len(b) <= Len(path)
    /\ SubSeq(path, Len(path) - Len(b) + 1, Len(path)) = b
    /\ ~HasSep(b)
    /\ (Len(b) = Len(path) \/ path[Len(path) - Len(b)] = "/")

\* name is base with its extension stripped: base is name followed by
\* nothing or by one ".xyz", where leading dots of base never start an
\* extension
IsStem(name, base) ==
    /\ IsPrefix(name, base)
    /\ LET ext == SubSeq(base, Len(name) + 1, Len(base))
       IN IF ext = <<>>
          THEN ~\E d \in 2..Len(base) : base[d] = "." /\ \E k \in 1..(d - 1) : base[k] # "."
          ELSE /\ ext[1] = "."
               /\ \A k \in 2..Len(ext) : ext[k] # "."
               /\ \E k \in 1..Len(name) : name[k] # "."

\* the entries <<i, j>> of the export result
Entries(info) ==
    {x \in (1..Len(info.sets)) \X (1..MaxEntries) : x[2] <= Len(info.sets[x[1]])}

TextureMode == ~(env.settings["Publish Textures as Folder"].tag = "PluginSetting"
                 /\ env.settings["Publish Textures as Folder"].value = TRUE)

\* C4 (as claimed): in per-texture mode, once the export returned, the call returns
\* without error and the substancepainter.texture items correspond one to one
\* to the entries of the export result whose file exists: as many items have
\* path f as entries name an existing f; each is a child of the session item
\* with publish_type "Texture" and the file's base name, extension stripped,
\* as display name.
C4_TextureItemsMatchExistingFiles ==
    (collector = "painter" /\ TextureMode /\ ExportReturned) =>
        LET info == env.app.map_export_info
        IN /\ err = "none"
           /\ ItemsWhere(IsFolderItem) = {}
           /\ \A f \in TextureFiles :
                Cardinality({k \in ItemsWhere(IsTextureItem) : tree[k].properties.path = f})
                  = (IF f \in info.exists
                     THEN Cardinality({x \in Entries(info) : info.sets[x[1]][x[2]] = f})
                     ELSE 0)
           /\ \A k \in ItemsWhere(IsTextureItem) :
                /\ tree[k].properties.path \in TextureFiles
                /\ tree[k].properties.publish_type = <<"Texture">>
                /\ tree[k].parent \in ItemsWhere(IsPainterSession)
                /\ \E b \in {SubSeq(tree[k].properties.path, i, Len(tree[k].properties.path)) :
                             i \in 1..(Len(tree[k].properties.path) + 1)} :
                      /\ IsLastComponent(b, tree[k].properties.path)
                      /\ IsStem(tree[k].name, b)

\* a template setting that names a template
Configured(setting) == setting.tag = "PluginSetting" /\ setting.value.tag = "str"

\* C5: get_export_path returns no value when Work Template or Work Export
\* Template is unset; when both are set, what it returns is the work-export
\* template applied to the fields of the current project path under the work
\* template (here: the export root followed by what follows the work root);
\* when it returned no value, the path handed to export_document_maps is the
\* application's project export path.
C5_ExportPathResolution ==
    (collector = "painter" /\ calls.get_export_path # <<>>) =>
        LET got == calls.get_export_path[1]
            path == env.app.current_project_path
            both == Configured(env.settings["Work Template"])
                    /\ Configured(env.settings["Work Export Template"])
        IN /\ Len(calls.get_export_path) = 1
           /\ ~both => got = NoPath
           /\ both => \E rest \in {SubSeq(path, i, Len(path)) : i \in 1..Len(path)} :
                        /\ path = <<"/", "w", "/">> \o rest
                        /\ got = <<"/", "e", "/">> \o rest
           /\ got = NoPath =>
                /\ calls.export_document_maps = <<env.app.project_export_path>>
                /\ \E k \in 1..Len(events) : events[k] = "get_project_export_path"
           /\ got # NoPath => calls.export_document_maps = <<got>>

\* only the export template is set, and the per-texture export goes to the
\* application's export path
C5_Witness ==
    /\ collector = "painter" /\ TextureMode
    /\ ~Configured(env.settings["Work Template"])
    /\ Configured(env.settings["Work Export Template"])
    /\ calls.get_export_path = <<NoPath>>
    /\ env.app.project_export_path # NoPath
    /\ calls.export_document_maps = <<env.app.project_export_path>>

\* C6: a call of the 3-D Content collector creates one blender.session item
\* under parent_item, one blender.session.geometry item named "All Session
\* Geometry" under that session item, and nothing else.
IsBlenderSession(it) == it.item_type = "blender.session"
IsBlenderGeometry(it) == it.item_type = "blender.session.geometry"

C6_BlenderSessionAndGeometry ==
    collector = "blender" =>
        /\ Len(tree) = 2
        /\ Cardinality(ItemsWhere(IsBlenderSession)) = 1
        /\ Cardinality(ItemsWhere(IsBlenderGeometry)) = 1
        /\ \A k \in ItemsWhere(IsBlenderSession) : tree[k].parent = 0
        /\ \A k \in ItemsWhere(IsBlenderGeometry) :
            /\ tree[k].parent \in ItemsWhere(IsBlenderSession)
            /\ tree[k].name = <<"All Session Geometry">>
        /\ err = "none"

\* no Work Template and an unsaved scene
C6_Witness ==
    /\ collector = "blender"
    /\ env.settings["Work Template"] = PyNone
    /\ env.filepath = NoPath
    /\ Len(tree) = 2

\* the object get_template_by_name returns for the value of a setting
ResolvedByName(setting) ==
    IF setting.value.tag = "str" THEN [tag |-> "Template", name |-> setting.value.s]
    ELSE PyNone

CarriesWorkTemplate(it) == "work_template" \in DOMAIN it.properties

\* C7 (as claimed): an item that carries a work_template property carries the
\* object get_template_by_name returned for the value of the configured Work
\* Template setting.
C7_WorkTemplateIsResolvedByName ==
    \A k \in ItemsWhere(CarriesWorkTemplate) :
        /\ env.settings["Work Template"].tag = "PluginSetting"
        /\ tree[k].properties.work_template = ResolvedByName(env.settings["Work Template"])

\* C7 (amended): an item that carries a work_template property carries the
\* object get_template_by_name returned for the value of the Work Template
\* setting, or, for the Node-Graph collector without a Work Template
\* setting, None; it is never a string; every item of the Node-Graph
\* collector carries the property, all with the same value.
C7_WorkTemplateUnresolved ==
    /\ \A k \in ItemsWhere(CarriesWorkTemplate) :
        /\ tree[k].properties.work_template.tag \in {"Template", "None"}
        /\ IF env.settings["Work Template"].tag = "PluginSetting"
           THEN tree[k].properties.work_template = ResolvedByName(env.settings["Work Template"])
           ELSE collector = "designer" /\ tree[k].properties.work_template = PyNone
    /\ collector = "designer" =>
        \A k \in 1..Len(tree) :
            /\ CarriesWorkTemplate(tree[k])
            /\ tree[k].properties.work_template = tree[1].properties.work_template

\* a Node-Graph call with a work template configured and several items
C7_Witness ==
    /\ collector = "designer"
    /\ Configured(env.settings["Work Template"])
    /\ Len(tree) >= 4
    /\ tree[4].properties.work_template = [tag |-> "Template", name |-> "work"]

\* C8: an item of type graph.textures, graph.mdle or graph.preset refers to
\* one graph: its resource is a graph among the resources of its package, of
\* the kind its type is made for; its parent is the substancedesigner.package
\* item of that package; its extra_fields map substancedesigner.graph.name to
\* the identifier of that resource.
IsGraphItem(it) ==
    it.item_type \in {"substancedesigner.graph.textures", "substancedesigner.graph.mdle",
                      "substancedesigner.graph.preset"}

C8_GraphItemsConsistent ==
    \A k \in ItemsWhere(IsGraphItem) :
        LET it == tree[k]
            pck == it.properties.package
        IN /\ \E i \in 1..Len(env.user_pcks) : env.user_pcks[i] = pck
           /\ \E j \in 1..Len(pck.resources) :
                /\ pck.resources[j] = it.properties.resource
                /\ pck.resources[j].tag =
                     (IF it.item_type = "substancedesigner.graph.textures"
                      THEN CompGraph ELSE MDLGraph)
                /\ it.properties.extra_fields["substancedesigner.graph.name"]
                     = pck.resources[j].identifier
           /\ it.parent \in 1..Len(tree)
           /\ tree[it.parent].item_type = "substancedesigner.package"
           /\ tree[it.parent].properties.package = pck
           /\ tree[it.parent].parent = 0

\* two packages, each with a graph, the two graphs having the same identifier
C8_Witness ==
    /\ collector = "designer"
    /\ Len(env.user_pcks) = 2
    /\ Len(env.user_pcks[1].resources) = 1
    /\ Len(env.user_pcks[2].resources) = 1
    /\ env.user_pcks[1].resources[1].tag = MDLGraph
    /\ env.user_pcks[2].resources[1].tag = CompGraph
    /\ env.user_pcks[1].resources[1].identifier = env.user_pcks[2].resources[1].identifier
    /\ Cardinality(ItemsWhere(IsGraphItem)) = 3

\* C9: the session item of the Texturing-Tool collector is named "Current
\* Substance Painter Session", that of the 3-D Content collector "Current
\* Blender Session", when the application reports no path; with a path, the
\* name is the last component of the path.
C9_SessionDisplayName ==
    /\ collector = "painter" =>
        /\ Cardinality(ItemsWhere(IsPainterSession)) = 1
        /\ \A k \in ItemsWhere(IsPainterSession) :
            IF env.app.current_project_path = NoPath
            THEN tree[k].name = <<"Current Substance Painter Session">>
            ELSE IsLastComponent(tree[k].name, env.app.current_project_path)
    /\ collector = "blender" =>
        /\ Cardinality(ItemsWhere(IsBlenderSession)) = 1
        /\ \A k \in ItemsWhere(IsBlenderSession) :
            IF env.filepath = NoPath
            THEN tree[k].name = <<"Current Blender Session">>
            ELSE IsLastComponent(tree[k].name, env.filepath)

\* a Texturing-Tool call with a project whose directory has a dot in its name
C9_Witness ==
    /\ collector = "painter"
    /\ env.app.current_project_path = <<"/", "x", "/", "v", ".", "1", "/", "proj">>
    /\ tree[1].name = <<"proj">>

\* C10 (as claimed): in folder mode, when after the export the export path
\* does not exist or lists no files, no substancepainter.textures item is
\* created and the call returns without error.
C10_MissingOrEmptySkipsSilently ==
    (collector = "painter" /\ FolderSettingTrue /\ ExportReturned
        /\ env.app.dir_state \in {"missing", "empty"}) =>
        /\ ItemsWhere(IsFolderItem) = {}
        /\ err = "none"

\* C10 (amended): in folder mode, once the export returned, no
\* substancepainter.textures item is created when there is no export path,
\* when the export path does not exist or when it lists no files; the call
\* returns without error when there is no export path or the directory lists
\* no files, and the error of the directory listing propagates when the
\* export path does not exist.
C10_MissingRaisesEmptySkips ==
    (collector = "painter" /\ FolderSettingTrue /\ ExportReturned
        /\ (env.app.dir_state \in {"missing", "empty"}
            \/ calls.export_document_maps = <<NoPath>>)) =>
        /\ ItemsWhere(IsFolderItem) = {}
        /\ Len(tree) = 1
        /\ err = (IF env.app.dir_state = "missing" THEN "listdir" ELSE "none")

\* the export returned and the export path does not exist
C10_Witness ==
    /\ collector = "painter" /\ FolderSettingTrue /\ ExportReturned
    /\ env.app.dir_state = "missing"
    /\ err = "listdir"
    /\ ~busy

\* the positions of event e in the call
At(e) == {k \in 1..Len(events) : events[k] = e}

ExportCalled == collector = "painter" /\ calls.export_document_maps # <<>>

\* C11: in a call in which export_document_maps returns, show_busy,
\* export_document_maps and clear_busy each occur once, in that order; texture
\* and texture-folder items are created only after clear_busy; the busy
\* indicator is clear when the call ends.
C11_BusyBracketsExport ==
    (ExportCalled /\ ~env.app.export_raises) =>
        /\ Cardinality(At("show_busy")) = 1
        /\ Cardinality(At("export_document_maps")) = 1
        /\ Cardinality(At("clear_busy")) = 1
        /\ \A s \in At("show_busy"), x \in At("export_document_maps"), c \in At("clear_busy") :
            /\ s < x
            /\ x < c
            /\ \A k \in At("substancepainter.textures") \cup At("substancepainter.texture") :
                c < k
        /\ Cardinality(At("substancepainter.textures") \cup At("substancepainter.texture"))
             = Len(tree) - 1
        /\ ~busy

\* a per-texture call that created two texture items after the export
C11_Witness ==
    /\ ExportCalled /\ ~env.app.export_raises
    /\ TextureMode
    /\ Cardinality(At("substancepainter.texture")) = 2
    /\ ~busy

\* C12: when export_document_maps raises, the error leaves the call uncaught,
\* clear_busy is not called and the busy indicator stays shown, no texture or
\* texture-folder item is created, and the session item created before under
\* the parent item is still in the tree.
C12_ExportErrorLeavesBusy ==
    (ExportCalled /\ env.app.export_raises) =>
        /\ err = "export_document_maps"
        /\ ret = PyNone
        /\ At("show_busy") # {}
        /\ At("clear_busy") = {}
        /\ busy
        /\ ItemsWhere(IsFolderItem) = {}
        /\ ItemsWhere(IsTextureItem) = {}
        /\ Len(tree) = 1
        /\ IsPainterSession(tree[1])
        /\ tree[1].parent = 0

\* a per-texture call of a saved project whose export raised
C12_Witness ==
    /\ ExportCalled /\ env.app.export_raises
    /\ TextureMode
    /\ env.app.current_project_path # NoPath
    /\ At("show_busy") # {}
    /\ err = "export_document_maps"
    /\ busy
    /\ Len(tree) = 1

StrategyRuns == At("collect_textures_as_folder") \cup At("collect_textures")

\* the session item is built first and then exactly one strategy runs: the
\* folder strategy when Publish Textures as Folder is true, the per-texture
\* strategy otherwise
SessionThenOneStrategy ==
    /\ Len(tree) >= 1
    /\ IsPainterSession(tree[1])
    /\ Cardinality(At("substancepainter.session")) = 1
    /\ Cardinality(StrategyRuns) = 1
    /\ \A i \in At("substancepainter.session"), k \in StrategyRuns : i < k
    /\ FolderSettingTrue <=> At("collect_textures_as_folder") # {}

\* C13 (as claimed): in every call of the Substance Painter collector the
\* session item is built first, then exactly one of the two texture strategies
\* runs, and export_document_maps is triggered exactly once, also when there is
\* no current project path; the folder strategy runs when Publish Textures as
\* Folder is true and the per-texture strategy otherwise.
C13_OneStrategyOneExport ==
    collector = "painter" =>
        /\ SessionThenOneStrategy
        /\ Len(calls.export_document_maps) = 1
        /\ Cardinality(At("export_document_maps")) = 1

\* settings.get("Work Template") yields a setting object
WorkTemplatePresent == env.settings["Work Template"].tag = "PluginSetting"

IsSessionItem(it) == IsPainterSession(it) \/ IsBlenderSession(it)

SessionPublishType(it) ==
    IF IsPainterSession(it) THEN <<"Substance Painter Project File">>
    ELSE <<"Blender Project File">>

\* C14: the session item of the Substance Painter and Blender collectors
\* carries work_template and publish_type together, exactly when
\* settings.get("Work Template") yields a setting; publish_type is then
\* "Substance Painter Project File" respectively "Blender Project File"; without
\* the setting the session item is created all the same and carries neither.
C14_WorkTemplateAndPublishTypeTogether ==
    collector \in {"painter", "blender"} =>
        /\ Cardinality(ItemsWhere(IsSessionItem)) = 1
        /\ \A k \in ItemsWhere(IsSessionItem) :
            LET p == tree[k].properties
            IN /\ "work_template" \in DOMAIN p <=> WorkTemplatePresent
               /\ "publish_type" \in DOMAIN p <=> WorkTemplatePresent
               /\ WorkTemplatePresent =>
                    /\ p.publish_type = SessionPublishType(tree[k])
                    /\ p.work_template = GetTemplateByName(env.settings["Work Template"].value)

\* a Blender call without the Work Template setting: the session item exists
\* and has neither property
C14_Witness ==
    /\ collector = "blender"
    /\ ~WorkTemplatePresent
    /\ \E k \in ItemsWhere(IsSessionItem) :
        DOMAIN tree[k].properties \cap {"work_template", "publish_type"} = {}
====
